---- MODULE Spec2Model ----
(***************************************************************************)
(* A model of bin/db2authors.py: the conversion of an author roster and an *)
(* author database into author/affiliation text for AASTeX, SPIE, ADASS    *)
(* and arXiv.                                                              *)
(*                                                                         *)
(* Text is modelled structurally.  A name is a sequence of one-character   *)
(* strings.  An affiliation address is a sequence of tokens, a token being *)
(* either a word or the comma ",".  The output stream `out` is the         *)
(* sequence of the pieces the program prints, each piece a record naming   *)
(* the template it was formatted with and the arguments of the format.     *)
(***************************************************************************)
EXTENDS Integers, Sequences, FiniteSets, TLC

VARIABLES
    mode,           \* args.mode as given on the command line
    noafil,         \* args.noafil
    pc,             \* position of the script
    err,            \* the exception that ended the run, if any
    docsRead,       \* TRUE once authors.yaml and authordb.yaml were opened
    authors,        \* the roster read from authors.yaml
    anum,           \* number of roster entries whose iteration has completed
    affilset,       \* labels seen so far, in first-encounter order
    theAffil,       \* the leaked loop variable of "for theAffil in ..."
    addrVars,       \* country / state / pcode (module-level names, kept between iterations)
    bound,          \* which of theAffil, country, state, pcode are bound names
    affilAuthLog,   \* the affilAuth built for each roster entry, in order
    authOutput,     \* buffered author snippets
    allAffil,       \* buffered affiliation entries
    pAuthorOutput,  \* \paperauthor records
    indexOutput,    \* \aindex records
    out,            \* stdout: the sequence of printed pieces
    nkind,          \* name normalisation check: which transform is exercised
    nin,            \* name normalisation check: the raw string
    nonce,          \* name normalisation check: the string normalised once
    ntwice,         \* name normalisation check: the string normalised twice
    npc             \* name normalisation check: position

vars == <<mode, noafil, pc, err, docsRead, authors, anum, affilset, theAffil,
          addrVars, bound, affilAuthLog, authOutput, allAffil, pAuthorOutput,
          indexOutput, out, nkind, nin, nonce, ntwice, npc>>

mainVars == <<mode, noafil, pc, err, docsRead, authors, anum, affilset, theAffil,
              addrVars, bound, affilAuthLog, authOutput, allAffil, pAuthorOutput,
              indexOutput, out>>

normVars == <<nkind, nin, nonce, ntwice, npc>>

(***************************************************************************)
(* Bounds of the model.                                                    *)
(***************************************************************************)
\* longest roster read from authors.yaml
MaxRoster == 3
\* longest raw name string fed to the normalisation check
MaxLen == 4

(***************************************************************************)
(* Characters and the regular expressions of the name handling.            *)
(***************************************************************************)
\* the characters names are drawn from: a word character, the dot, two
\* whitespace characters, the tie and the hyphen
Alphabet == {"A", ".", " ", "\t", "~", "-"}

\* \s of the re module
IsSpace(c) == c \in {" ", "\t"}

\* \w of the re module ("~", ".", "-" and whitespace are not word characters)
IsWord(c) == c \in {"A", "B", "C", "D", "E", "F", "J", "K", "L"}

\* the character class [ -\.\~] of get_initials: the range " ".."." and "~"
IsInitialsSep(c) == c \in {" ", "-", ".", "~"}

RECURSIVE SkipSpaces(_)
\* the rest of s after the whitespace run it starts with
SkipSpaces(s) ==
    IF s # <<>> /\ IsSpace(Head(s)) THEN SkipSpaces(Tail(s)) ELSE s

RECURSIVE SubSpaces(_)
\* re.sub(r"\s+", "~", s): every maximal whitespace run becomes one "~"
SubSpaces(s) ==
    IF s = <<>> THEN <<>>
    ELSE IF IsSpace(Head(s)) THEN <<"~">> \o SubSpaces(SkipSpaces(s))
    ELSE <<Head(s)>> \o SubSpaces(Tail(s))

RECURSIVE SubDotAny(_)
\* the dot rule with "." in place of "\w": a tie after every dot that is
\* followed by any character
SubDotAny(s) ==
    IF s = <<>> THEN <<>>
    ELSE IF Head(s) = "." /\ Len(s) >= 2
         THEN <<".", "~", s[2]>> \o SubDotAny(Tail(Tail(s)))
    ELSE <<Head(s)>> \o SubDotAny(Tail(s))

RECURSIVE SubDotWord(_)
\* re.sub(r"\.(\w)", lambda m: ".~" + m.group(1), s): scanning left to right,
\* a dot followed by a word character becomes dot, tie, that character
SubDotWord(s) ==
    IF s = <<>> THEN <<>>
    ELSE IF Head(s) = "." /\ Len(s) >= 2 /\ IsWord(s[2])
         THEN <<".", "~", s[2]>> \o SubDotWord(Tail(Tail(s)))
    ELSE <<Head(s)>> \o SubDotWord(Tail(s))

\* surname = re.sub(r"\s+", "~", auth["name"])
NormSurname(s) == SubSpaces(s)

\* initials = re.sub(r"\.(\w)", ...) followed by re.sub(r"\s+", "~", initials)
NormInitials(s) == SubSpaces(SubDotWord(s))

RECURSIVE FirstLetters(_, _)
\* the first character of every non-empty piece of re.split(r'[ -\.\~]', s);
\* atStart says that the next character starts a piece
FirstLetters(s, atStart) ==
    IF s = <<>> THEN <<>>
    ELSE IF IsInitialsSep(Head(s)) THEN FirstLetters(Tail(s), TRUE)
    ELSE IF atStart THEN <<Head(s)>> \o FirstLetters(Tail(s), FALSE)
    ELSE FirstLetters(Tail(s), FALSE)

RECURSIVE JoinDotTie(_)
\* ".~".join(realInitials)
JoinDotTie(ls) ==
    IF ls = <<>> THEN <<>>
    ELSE IF Len(ls) = 1 THEN <<ls[1]>>
    ELSE <<ls[1], ".", "~">> \o JoinDotTie(Tail(ls))

\* get_initials(initials)
get_initials(s) == <<"~">> \o JoinDotTie(FirstLetters(s, TRUE)) \o <<".">>

(***************************************************************************)
(* The author database (etc/authordb.yaml) the model runs against.  Every  *)
(* affiliation label an author names is a key of `affil`; the addresses    *)
(* have 1, 2, 3, 4 and 5 comma-separated components and no empty one.      *)
(***************************************************************************)
\* authordb["affiliations"]: label -> address
affil ==
    [l \in {"X", "Y", "Z", "W", "V"} |->
        CASE l = "X" -> <<"InstX", ",", "Tucson", ",", "AZ", "85721", ",", "USA">>
          [] l = "Y" -> <<"InstY", ",", "Paris", ",", "France">>
          [] l = "Z" -> <<"InstZ">>
          [] l = "W" -> <<"InstW", ",", "UK">>
          [] l = "V" -> <<"InstV", ",", "Rue", "B", ",", "Lyon", ",", "RA", "69000", ",", "Suisse">>]

\* authordb["authors"]: author id -> record; an absent or None orcid / email
\* is "", which is what auth.get(key, "") followed by the None test yields
authorinfo ==
    [a \in {"a1", "a2", "a3", "a4", "a5", "a6"} |->
        CASE a = "a1" -> [name |-> <<"D", " ", "L">>, initials |-> <<"A", ".", "B", ".">>,
                          orcid |-> "0000-0001", email |-> "",
                          affil |-> <<"X">>, altaffil |-> <<"Hubble Fellow">>]
          [] a = "a2" -> [name |-> <<"B">>, initials |-> <<"J", ".", " ", "K", ".">>,
                          orcid |-> "", email |-> "b@x.org",
                          affil |-> <<"X", "Y">>, altaffil |-> <<>>]
          [] a = "a3" -> [name |-> <<"C">>, initials |-> <<"C", ".">>,
                          orcid |-> "", email |-> "",
                          affil |-> <<"Z">>, altaffil |-> <<>>]
          [] a = "a4" -> [name |-> <<"E">>, initials |-> <<"E", ".">>,
                          orcid |-> "", email |-> "",
                          affil |-> <<>>, altaffil |-> <<>>]
          [] a = "a5" -> [name |-> <<"F">>, initials |-> <<"F", "-", "A", ".">>,
                          orcid |-> "0000-0005", email |-> "",
                          affil |-> <<"W">>, altaffil |-> <<>>]
          [] a = "a6" -> [name |-> <<"K", "\t", " ", "L">>, initials |-> <<"K", ".">>,
                          orcid |-> "", email |-> "",
                          affil |-> <<"V", "X">>, altaffil |-> <<>>]]

\* the identifiers a roster may hold: the database's, and one it does not define
RosterIds == DOMAIN authorinfo \cup {"ghost"}

\* the rosters authors.yaml may hold
Rosters == UNION {[1..n -> RosterIds] : n \in 0..MaxRoster}

(***************************************************************************)
(* Command line and mode configuration.                                    *)
(***************************************************************************)
OUTPUT_MODES == {"aas", "spie", "adass", "arxiv"}

\* what -m may be given on the command line
ModeArgs == OUTPUT_MODES \cup {"verbose"}

\* a parser that has no choices= restriction
ModeAcceptedAny == TRUE

\* argparse's choices=OUTPUT_MODES test of parse_args()
ModeAccepted == mode \in OUTPUT_MODES

buffer_affil == mode \in {"arxiv", "spie", "adass"}

buffer_authors == mode \in {"arxiv", "adass"}

author_super == mode = "adass"

affil_cmd ==
    IF mode = "arxiv" THEN "" ELSE IF mode \in {"spie", "adass"} THEN "affil"
    ELSE "affiliation"

affil_form ==
    IF mode = "arxiv" THEN "{}({}) {}"
    ELSE IF mode = "adass" THEN "\\{}{{$^{}${}}}" ELSE "\\{}[{}]{{{}}}"

auth_afil_form ==
    IF mode = "arxiv" THEN "{}{}({})"
    ELSE IF mode = "adass" THEN "{}{}$^{}$" ELSE "{}{}{}"

author_form ==
    IF mode = "arxiv" THEN "{} {}{}"
    ELSE IF mode = "adass" THEN "{}~{}{}" ELSE "\\author{}{{~{}~{}}}"

\* bound in the arxiv and adass branches only
affil_out_sep == CASE mode = "arxiv" -> ", " [] mode = "adass" -> "\n"

(***************************************************************************)
(* Helpers on sequences.                                                   *)
(***************************************************************************)
\* x in s, for a list s
InSeq(x, s) == \E i \in 1..Len(s) : s[i] = x

\* s.index(x) + 1, for x in s
IndexOf(s, x) == CHOOSE i \in 1..Len(s) : s[i] = x /\ \A j \in 1..(i - 1) : s[j] # x

RECURSIVE SplitComma(_)
\* [a.strip() for a in text.split(',')]: the components of an address
SplitComma(t) ==
    IF ~InSeq(",", t) THEN <<t>>
    ELSE LET c == IndexOf(t, ",")
         IN  <<SubSeq(t, 1, c - 1)>> \o SplitComma(SubSeq(t, c + 1, Len(t)))

RECURSIVE Join(_, _)
\* the pieces print(*xs, sep=sep) writes: the items with sep between them
Join(xs, sep) ==
    IF Len(xs) <= 1 THEN xs
    ELSE <<xs[1], [k |-> "sep", txt |-> sep]>> \o Join(Tail(xs), sep)

(***************************************************************************)
(* The body of the author loop.                                            *)
(***************************************************************************)
\* one affiliation entry: affil_form.format(affil_cmd, ind, text)
AffilEntry(ind, text) ==
    [k |-> "affil", form |-> affil_form, cmd |-> affil_cmd, ind |-> ind, text |-> text]

\* the length of the label list in place of the label's position
AffilIndLen(set, lab) == Len(set)

\* affilInd = affilset.index(theAffil) + 1
AffilInd(set, lab) == IndexOf(set, lab)

\* one pass of "for theAffil in auth['affil']" over label lab; st holds
\* affilset, affilOutput, affilAuth and affilSep.  affilAuth is the list of
\* the (separator, index) pairs auth_afil_form appended to it
AffilStep(st, lab) ==
    LET isNew == ~InSeq(lab, st.set)
        set2  == IF isNew THEN Append(st.set, lab) ELSE st.set
        outp2 == IF isNew THEN Append(st.outp, AffilEntry(Len(set2), affil[lab]))
                 ELSE st.outp
        auth2 == IF noafil THEN st.auth
                 ELSE Append(st.auth, [sep |-> st.sep, ind |-> AffilInd(set2, lab)])
    IN  [set |-> set2, outp |-> outp2, auth |-> auth2, sep |-> " "]

RECURSIVE AffilLoop(_, _)
\* the whole "for theAffil in auth['affil']" loop
AffilLoop(labs, st) ==
    IF labs = <<>> THEN st ELSE AffilLoop(Tail(labs), AffilStep(st, Head(labs)))

\* affilSep before the loop: "," for ADASS except on the last roster entry
InitialSep == IF author_super /\ anum < Len(authors) - 1 THEN "," ELSE ""

\* the value theAffil holds once the loop over a non-empty labs has ended
LastAffil(labs) == labs[Len(labs)]

\* the address parsing of lines 199-214 for label lab, starting from the
\* bindings b and values v of country / state / pcode left by earlier
\* iterations.  addr[ind] of the code is addr[ind + 1] here
ParseAddr(lab, v, b) ==
    LET addr == SplitComma(affil[lab])
        ind0 == Len(addr) - 1
        c1   == ind0 > 0
        ind1 == IF c1 THEN ind0 - 1 ELSE ind0
        c2   == ind1 > 0
        sc   == addr[ind1 + 1]
        ind2 == IF c2 THEN ind1 - 1 ELSE ind1
    IN  [tute  |-> addr[1],
         city  |-> IF ind2 > 0 THEN addr[ind2 + 1] ELSE <<>>,
         v     |-> [country |-> IF c1 THEN addr[ind0 + 1] ELSE v.country,
                    state   |-> IF c2 THEN sc[1] ELSE v.state,
                    pcode   |-> IF c2 THEN (IF Len(sc) = 2 THEN sc[2] ELSE "")
                                ELSE v.pcode],
         b     |-> b \cup (IF c1 THEN {"country"} ELSE {})
                      \cup (IF c2 THEN {"state", "pcode"} ELSE {})]

\* the names the \paperauthor format reads, in the order it evaluates them
FirstUnbound(b) ==
    IF "state" \notin b THEN "state"
    ELSE IF "pcode" \notin b THEN "pcode"
    ELSE IF "country" \notin b THEN "country" ELSE ""

\* the first argument of the non-buffered author_form: "[affilAuth]" under
\* buffer_affil, else "[orcid]" when the author has one, else ""
OrcidArg(auth, affilAuth) ==
    IF buffer_affil THEN [bracket |-> TRUE, ref |-> affilAuth, id |-> ""]
    ELSE IF auth.orcid # "" THEN [bracket |-> TRUE, ref |-> <<>>, id |-> auth.orcid]
    ELSE [bracket |-> FALSE, ref |-> <<>>, id |-> ""]

\* author_form.format(initials, surname, affilAuth), appended to authOutput
AuthorSnippet(initials, surname, affilAuth) ==
    [k |-> "author", form |-> author_form, initials |-> initials, surname |-> surname,
     opt |-> [bracket |-> FALSE, ref |-> affilAuth, id |-> ""]]

\* author_form.format(orcid, initials, surname), printed at once
AuthorLine(orcid, initials, surname) ==
    [k |-> "author", form |-> author_form, initials |-> initials, surname |-> surname,
     opt |-> orcid]

\* \altaffiliation{...} lines, one per entry of auth["altaffil"]
AltAffilLines(auth) ==
    [i \in 1..Len(auth.altaffil) |-> [k |-> "altaffil", text |-> auth.altaffil[i]]]

\* \affiliation{...} lines of AAS: one per label of the author, by label
PlainAffilLines(auth) ==
    [i \in 1..Len(auth.affil) |->
        [k |-> "affil", form |-> "\\{}{{{}}}", cmd |-> affil_cmd, ind |-> 0,
         text |-> affil[auth.affil[i]]]]

\* the affiliation lines printed before the author line
EmitAffilFirst(line, affilOutput, auth) ==
    IF buffer_affil THEN Join(affilOutput, "\n") \o <<line>> \o <<[k |-> "blank"]>>
    ELSE AltAffilLines(auth) \o PlainAffilLines(auth) \o <<line>> \o <<[k |-> "blank"]>>

\* what the non-buffered branch (lines 232-243) prints for one author
EmitUnbuffered(line, affilOutput, auth) ==
    IF buffer_affil THEN <<line>> \o Join(affilOutput, "\n") \o <<[k |-> "blank"]>>
    ELSE <<line>> \o AltAffilLines(auth) \o PlainAffilLines(auth) \o <<[k |-> "blank"]>>

(***************************************************************************)
(* Final assembly helpers.                                                 *)
(***************************************************************************)
\* what follows the n-th author snippet (lines 255-260); numAuths is
\* len(authOutput) - 1
AuthorSep(n, numAuths) ==
    IF (n = numAuths /\ numAuths > 1) \/ (mode = "arxiv" /\ n < numAuths)
    THEN <<[k |-> "sep", txt |-> " and "]>>
    ELSE IF n < numAuths THEN <<[k |-> "sep", txt |-> " "]>>
    ELSE <<>>

RECURSIVE JoinAuthors(_, _, _)
\* the loop "for auth in authOutput" from the n-th snippet on
JoinAuthors(snips, n, numAuths) ==
    IF n > Len(snips) THEN <<>>
    ELSE <<snips[n]>> \o AuthorSep(n, numAuths) \o JoinAuthors(snips, n + 1, numAuths)

\* everything lines 245-273 print
FinalText ==
    IF ~buffer_authors THEN <<>>
    ELSE
        <<[k |-> "open", txt |-> IF mode = "arxiv" THEN "Authors:" ELSE "\\author{"]>>
        \o JoinAuthors(authOutput, 1, Len(authOutput) - 1)
        \o <<[k |-> "close", txt |-> IF mode = "arxiv" THEN "\n(" ELSE "}"]>>
        \o (IF noafil THEN <<>> ELSE Join(allAffil, affil_out_sep))
        \o (IF mode = "arxiv" THEN <<[k |-> "close", txt |-> ")\n"]>>
            ELSE <<[k |-> "blank"]>> \o Join(pAuthorOutput, "\n")
                 \o <<[k |-> "comment"]>> \o Join(indexOutput, "\n"))

(***************************************************************************)
(* The script, top to bottom.                                              *)
(***************************************************************************)
IdleNorm ==
    /\ nkind = "surname" /\ nin = <<>> /\ nonce = <<>> /\ ntwice = <<>>
    /\ npc = "idle"

Init ==
    /\ mode \in ModeArgs
    /\ noafil \in BOOLEAN
    /\ pc = "start"
    /\ err = [type |-> "", what |-> ""]
    /\ docsRead = FALSE
    /\ authors = <<>>
    /\ anum = 0
    /\ affilset = <<>>
    /\ theAffil = ""
    /\ addrVars = [country |-> <<>>, state |-> "", pcode |-> ""]
    /\ bound = {}
    /\ affilAuthLog = <<>>
    /\ authOutput = <<>>
    /\ allAffil = <<>>
    /\ pAuthorOutput = <<>>
    /\ indexOutput = <<>>
    /\ out = <<>>
    /\ IdleNorm

\* args = parser.parse_args(): an unsupported -m value ends the run (exit 2)
ParseArgs ==
    /\ pc = "start"
    /\ pc' = IF ModeAccepted THEN "load" ELSE "usage_error"
    /\ UNCHANGED <<mode, noafil, err, docsRead, authors, anum, affilset, theAffil,
                   addrVars, bound, affilAuthLog, authOutput, allAffil,
                   pAuthorOutput, indexOutput, out>>
    /\ UNCHANGED normVars

\* the two open() / yaml.safe_load() of lines 84-94
LoadDocuments ==
    /\ pc = "load"
    /\ \E r \in Rosters : authors' = r
    /\ docsRead' = TRUE
    /\ pc' = "banner"
    /\ UNCHANGED <<mode, noafil, err, anum, affilset, theAffil, addrVars, bound,
                   affilAuthLog, authOutput, allAffil, pAuthorOutput, indexOutput,
                   out>>
    /\ UNCHANGED normVars

\* the "DO NOT EDIT" banner of lines 123-126
PrintBanner ==
    /\ pc = "banner"
    /\ out' = Append(out, [k |-> "banner"])
    /\ pc' = IF Len(authors) = 0 THEN "final" ELSE "loop"
    /\ UNCHANGED <<mode, noafil, err, docsRead, authors, anum, affilset, theAffil,
                   addrVars, bound, affilAuthLog, authOutput, allAffil,
                   pAuthorOutput, indexOutput>>
    /\ UNCHANGED normVars

\* one iteration of "for anum, authorid in enumerate(authors)", lines 147-243
ProcessAuthor ==
    /\ pc = "loop"
    /\ LET authorid == authors[anum + 1] IN
       IF authorid \notin DOMAIN authorinfo
       THEN \* KeyError -> RuntimeError naming the identifier
            /\ err' = [type |-> "RuntimeError", what |-> authorid]
            /\ pc' = "error"
            /\ UNCHANGED <<anum, affilset, theAffil, addrVars, bound, affilAuthLog,
                           authOutput, allAffil, pAuthorOutput, indexOutput, out>>
       ELSE
         LET auth     == authorinfo[authorid]
             st       == AffilLoop(auth.affil,
                                   [set |-> affilset, outp |-> <<>>, auth |-> <<>>,
                                    sep |-> InitialSep])
             affilAuth == st.auth
             boundA   == IF auth.affil # <<>> THEN bound \cup {"theAffil"} ELSE bound
             theAffilA == IF auth.affil # <<>> THEN LastAffil(auth.affil) ELSE theAffil
             surname  == NormSurname(auth.name)
             initials == NormInitials(auth.initials)
             pa       == ParseAddr(theAffilA, addrVars, boundA)
             affilOutput ==
                 IF mode = "arxiv" THEN <<AffilEntry(Len(st.set), pa.tute)>>
                 ELSE st.outp
             paperauthor ==
                 [k |-> "paperauthor", initials |-> initials, surname |-> surname,
                  email |-> auth.email, orc |-> auth.orcid, tute |-> pa.tute,
                  city |-> pa.city, state |-> pa.v.state, pcode |-> pa.v.pcode,
                  country |-> pa.v.country]
         IN
         /\ affilset' = st.set
         /\ affilAuthLog' = Append(affilAuthLog, affilAuth)
         /\ theAffil' = theAffilA
         /\ IF "theAffil" \notin boundA
            THEN \* line 199 reads theAffil, which no loop pass has bound
                 /\ err' = [type |-> "NameError", what |-> "theAffil"]
                 /\ pc' = "error"
                 /\ UNCHANGED <<anum, addrVars, bound, authOutput, allAffil,
                                pAuthorOutput, indexOutput, out>>
            ELSE
                 /\ addrVars' = pa.v
                 /\ bound' = pa.b
                 /\ IF FirstUnbound(pa.b) # ""
                    THEN \* line 218 reads a name no iteration has bound
                         /\ err' = [type |-> "NameError", what |-> FirstUnbound(pa.b)]
                         /\ pc' = "error"
                         /\ UNCHANGED <<anum, authOutput, allAffil, pAuthorOutput,
                                        indexOutput, out>>
                    ELSE
                         /\ pAuthorOutput' = Append(pAuthorOutput, paperauthor)
                         /\ indexOutput' = Append(indexOutput,
                                [k |-> "aindex", surname |-> surname,
                                 initials |-> get_initials(initials)])
                         /\ IF buffer_authors
                            THEN /\ authOutput' = Append(authOutput,
                                        AuthorSnippet(initials, surname, affilAuth))
                                 /\ allAffil' = allAffil \o affilOutput
                                 /\ out' = out
                            ELSE /\ out' = out \o EmitUnbuffered(
                                        AuthorLine(OrcidArg(auth, affilAuth),
                                                   initials, surname),
                                        affilOutput, auth)
                                 /\ UNCHANGED <<authOutput, allAffil>>
                         /\ anum' = anum + 1
                         /\ pc' = IF anum + 1 = Len(authors) THEN "final" ELSE "loop"
                         /\ err' = err
    /\ UNCHANGED <<mode, noafil, docsRead, authors>>
    /\ UNCHANGED normVars

\* lines 245-273, then the end of the script
FinalAssembly ==
    /\ pc = "final"
    /\ out' = out \o FinalText
    /\ pc' = "done"
    /\ UNCHANGED <<mode, noafil, err, docsRead, authors, anum, affilset, theAffil,
                   addrVars, bound, affilAuthLog, authOutput, allAffil,
                   pAuthorOutput, indexOutput>>
    /\ UNCHANGED normVars

Next == ParseArgs \/ LoadDocuments \/ PrintBanner \/ ProcessAuthor \/ FinalAssembly

Spec == Init /\ [][Next]_vars

(***************************************************************************)
(* Name normalisation applied to its own result.  The main run is idle     *)
(* here; the raw string is any string over Alphabet up to MaxLen.          *)
(***************************************************************************)
Strings == UNION {[1..n -> Alphabet] : n \in 0..MaxLen}

\* the surname or the initials transform of lines 190-196
Normalise(kind, s) == IF kind = "surname" THEN NormSurname(s) ELSE NormInitials(s)

IdleMain ==
    /\ mode = "aas" /\ noafil = FALSE /\ pc = "off"
    /\ err = [type |-> "", what |-> ""] /\ docsRead = FALSE
    /\ authors = <<>> /\ anum = 0 /\ affilset = <<>> /\ theAffil = ""
    /\ addrVars = [country |-> <<>>, state |-> "", pcode |-> ""]
    /\ bound = {} /\ affilAuthLog = <<>> /\ authOutput = <<>> /\ allAffil = <<>>
    /\ pAuthorOutput = <<>> /\ indexOutput = <<>> /\ out = <<>>

NormInit ==
    /\ IdleMain
    /\ nkind \in {"surname", "initials"}
    /\ nin \in Strings
    /\ nonce = <<>>
    /\ ntwice = <<>>
    /\ npc = "raw"

\* the transform applied to the database's string
NormaliseOnce ==
    /\ npc = "raw"
    /\ nonce' = Normalise(nkind, nin)
    /\ npc' = "once"
    /\ UNCHANGED <<nkind, nin, ntwice>>
    /\ UNCHANGED mainVars

\* the transform applied to a string it has produced
NormaliseAgain ==
    /\ npc = "once"
    /\ ntwice' = Normalise(nkind, nonce)
    /\ npc' = "twice"
    /\ UNCHANGED <<nkind, nin, nonce>>
    /\ UNCHANGED mainVars

NormNext == NormaliseOnce \/ NormaliseAgain

NormSpec == NormInit /\ [][NormNext]_vars

(***************************************************************************)
(* Vocabulary of the properties.                                           *)
(***************************************************************************)
Range(s) == {s[i] : i \in 1..Len(s)}

\* the affiliation labels of the i-th roster entry
LabelsOf(i) == authorinfo[authors[i]].affil

\* every roster identifier is in the author database
AllResolve == \A i \in 1..Len(authors) : authors[i] \in DOMAIN authorinfo

\* the position of the first roster identifier the database lacks
FirstMissing ==
    CHOOSE i \in 1..Len(authors) :
        /\ authors[i] \notin DOMAIN authorinfo
        /\ \A j \in 1..(i - 1) : authors[j] \in DOMAIN authorinfo

\* the run has ended: normally, or with an exception
Ended == pc \in {"done", "error"}

RECURSIVE Flat(_)
\* the labels of roster entries 1..n, in roster order and declared order
Flat(n) == IF n = 0 THEN <<>> ELSE Flat(n - 1) \o LabelsOf(n)

\* the position of the first occurrence of x in s
FirstOcc(s, x) == CHOOSE i \in 1..Len(s) : s[i] = x /\ \A j \in 1..(i - 1) : s[j] # x

\* the first roster position whose author names label l
FirstPos(l) ==
    CHOOSE r \in 1..Len(authors) :
        /\ authors[r] \in DOMAIN authorinfo /\ l \in Range(LabelsOf(r))
        /\ \A q \in 1..(r - 1) :
              authors[q] \in DOMAIN authorinfo => l \notin Range(LabelsOf(q))

IsAuthorPiece(e) == e.k = "author"

IsAffilPiece(e) == e.k = "affil"

\* the author pieces of the output, in order
AuthorPieces == SelectSeq(out, IsAuthorPiece)

\* the affiliation pieces of the output, in order
AffilPieces == SelectSeq(out, IsAffilPiece)

\* how many author pieces precede position i of the output
AuthorsBefore(i) == Cardinality({j \in 1..(i - 1) : out[j].k = "author"})

\* the author pieces are those of roster entries 1..n, one each, in order
AuthorPiecesAre(n) ==
    /\ Len(AuthorPieces) = n
    /\ \A j \in 1..n :
          /\ AuthorPieces[j].surname = NormSurname(authorinfo[authors[j]].name)
          /\ AuthorPieces[j].initials = NormInitials(authorinfo[authors[j]].initials)

\* the words of the addresses of the i-th roster entry's own labels
OwnWords(i) == UNION {Range(affil[l]) : l \in Range(LabelsOf(i))}

(***************************************************************************)
(* Properties.                                                             *)
(***************************************************************************)

\* C1: without --noafil, the Nth distinct affiliation label encountered (in
\* roster order, then declared order) holds index N in affilset, and the
\* affilAuth built for every processed roster entry lists, in declared
\* order, indices that still denote that entry's labels.
C1_AffilIndexStable ==
    ~noafil =>
        LET n    == Len(affilAuthLog)
            flat == Flat(n)
        IN  /\ Range(affilset) = Range(flat)
            /\ \A i \in 1..Len(affilset) : \A j \in 1..Len(affilset) :
                  i < j => FirstOcc(flat, affilset[i]) < FirstOcc(flat, affilset[j])
            /\ \A a \in 1..n :
                  /\ Len(affilAuthLog[a]) = Len(LabelsOf(a))
                  /\ \A j \in 1..Len(LabelsOf(a)) :
                        /\ affilAuthLog[a][j].ind \in 1..Len(affilset)
                        /\ affilset[affilAuthLog[a][j].ind] = LabelsOf(a)[j]

\* C1 witness: roster [a1, a2] with a1.affil = [X] and a2.affil = [X, Y] has
\* been processed; X holds 1, Y holds 2 and a2's reference reads 1 then 2.
C1_Witness ==
    /\ ~noafil
    /\ authors = <<"a1", "a2">>
    /\ Len(affilAuthLog) = 2
    /\ affilset = <<"X", "Y">>
    /\ affilAuthLog[1] = <<[sep |-> "", ind |-> 1]>>
    /\ affilAuthLog[2] = <<[sep |-> "", ind |-> 1], [sep |-> " ", ind |-> 2]>>

\* C2: in the combining modes (adass, arxiv) a finished run over two or more
\* authors has the separator " and " immediately before the last author's
\* snippet.
C2_AndBeforeLastAuthor ==
    (pc = "done" /\ buffer_authors /\ Len(authors) >= 2) =>
        LET last == CHOOSE i \in 1..Len(out) :
                        out[i].k = "author" /\ AuthorsBefore(i) = Len(authors) - 1
        IN  out[last - 1].k = "sep" /\ out[last - 1].txt = " and "

\* C3: in the modes that buffer affiliations (spie, adass, arxiv), a finished
\* run has emitted exactly one affiliation entry per distinct label, in
\* first-encounter order, each with the label's index and the label's own
\* address.
C3_OneAffilEntryPerLabel ==
    (pc = "done" /\ buffer_affil /\ ~noafil) =>
        /\ Len(AffilPieces) = Len(affilset)
        /\ \A i \in 1..Len(AffilPieces) :
              i <= Len(affilset) =>
                  /\ AffilPieces[i].ind = i
                  /\ AffilPieces[i].text = affil[affilset[i]]

\* C4: the \paperauthor record of an author with one or more labels takes
\* its venue from the address of the FIRST label of the author's list.
C4_PaperIndexFromFirstAffil ==
    \A i \in 1..Len(pAuthorOutput) :
        LabelsOf(i) # <<>> =>
            pAuthorOutput[i].tute = SplitComma(affil[LabelsOf(i)[1]])[1]

\* C5: a run over a roster holding an identifier the database lacks ends in
\* the RuntimeError naming the first such identifier; a combining mode has
\* then printed nothing but the banner, and a mode printing one block per
\* author has printed the author text of exactly the entries before it.
C5_MissingIdIsFatal ==
    (Ended /\ ~AllResolve) =>
        /\ pc = "error"
        /\ err = [type |-> "RuntimeError", what |-> authors[FirstMissing]]
        /\ buffer_authors => \A i \in 1..Len(out) : out[i].k = "banner"
        /\ ~buffer_authors => AuthorPiecesAre(FirstMissing - 1)

\* C6: a run over a roster whose identifiers and labels all resolve ends
\* with one author entry per roster entry in the output, in roster order.
C6_OneAuthorEntryPerRosterEntry ==
    (Ended /\ AllResolve) => AuthorPiecesAre(Len(authors))

\* C7 as stated: under buffer_affil (spie, adass, arxiv) no affiliation text
\* is in the output before the text of the last roster author.
C7_AffilAfterLastAuthor ==
    buffer_affil =>
        \A i \in 1..Len(out) :
            out[i].k = "affil" => AuthorsBefore(i) = Len(authors)

\* C7 amended: under buffer_affil an affiliation entry is never in the
\* output before the text of the roster author at which its label was first
\* encountered; under buffer_authors as well (adass, arxiv) it is never
\* before the text of the last roster author.
C7_AffilAfterOwnAuthor ==
    buffer_affil =>
        \A i \in 1..Len(out) :
            out[i].k = "affil" =>
                IF buffer_authors THEN AuthorsBefore(i) = Len(authors)
                ELSE AuthorsBefore(i) >= FirstPos(affilset[out[i].ind])

\* C7 witness: a spie run has printed an affiliation entry and, after it,
\* the text of a later author.
C7_Witness ==
    /\ mode = "spie"
    /\ \E i \in 1..Len(out) : \E j \in 1..Len(out) :
          i < j /\ out[i].k = "affil" /\ out[j].k = "author"

C9_NormalisationIdempotent == npc = "twice" => ntwice = nonce

\* C9 witness: initials holding a dot before a word character and a
\* whitespace run were changed by the first pass and went through a second.
C9_Witness ==
    /\ npc = "twice" /\ nkind = "initials"
    /\ nin = <<"A", ".", "A", " ">>
    /\ nonce = <<"A", ".", "~", "A", "~">>

\* C10: every address-derived field of a \paperauthor record (venue, city,
\* state, postal code, country) is empty or comes from the address of one
\* of that author's own labels.
C10_PaperIndexOwnAddress ==
    \A i \in 1..Len(pAuthorOutput) :
        LET rec == pAuthorOutput[i]
            own == OwnWords(i)
        IN  /\ Range(rec.tute) \subseteq own
            /\ Range(rec.city) \subseteq own
            /\ Range(rec.country) \subseteq own
            /\ rec.state \in own \cup {""}
            /\ rec.pcode \in own \cup {""}

====
